---- MODULE Spec2Model ----
(***************************************************************************)
(* Document versioning of LexMind: VersionManager (version_manager.py)     *)
(* working on the tables document_versions, document_changes and corp_docs *)
(* through the pooled, autocommit execute() of deps.py, its change         *)
(* analysis (difflib opcodes, impact and compliance assessment), and the   *)
(* read requests and error mapping of the endpoints in main.py.            *)
(***************************************************************************)
EXTENDS Integers, Sequences, FiniteSets, TLC

(* ------------------------------ bounds -------------------------------- *)

\* Concurrent callers (request handlers running on the event loop).
NumProcs == 2

\* Documents (rows of corp_docs).
NumDocs == 1

\* Interleaved callers start a call only while fewer than this many version
\* rows exist.
MaxVersions == 3

\* The sequential caller starts a call only while fewer than this many version
\* rows exist.
MaxVersionsSeq == 4

\* Storage failures (connection loss and the like) injected in one run.
MaxFaults == 1

\* The largest limit a read request passes to get_document_versions.
MaxLimit == 3

\* Characters in a content string given to a change analysis on its own.
MaxContentLen == 4

\* Version rows lost from storage in one run.
MaxLosses == 2

\* Connections the pool opens in one run (at most maxsize).
MaxConns == 2

\* Document paths of the /versioning endpoint and version rows in its table.
NumPaths == 1
MaxPathVersions == 3

Procs == 1..NumProcs

Docs == 1..NumDocs

\* The rows of corp_docs: the documents callers share and, for callers that
\* each work on a document of their own, one document per caller.
AllDocs == 1..(IF NumDocs > NumProcs THEN NumDocs ELSE NumProcs)

(* ------------------------------ content ------------------------------- *)

\* A content string is a sequence of characters; NL is the newline.
NL == "\n"

\* The contents callers submit: "a", "a\nb", "b\na".
ContentPool == { <<"a">>, <<"a", NL, "b">>, <<"b", NL, "a">> }

\* hashlib.sha256(content).hexdigest(): a digest that determines the content.
_calculate_hash(content) == <<"sha256", content>>

\* str.split('\n'): the lines of a content, each a sequence of characters;
\* never empty ("" splits to [""]).
RECURSIVE split(_)
split(s) ==
    IF \A i \in 1..Len(s) : s[i] # NL
    THEN <<s>>
    ELSE LET k == CHOOSE i \in 1..Len(s) :
                      s[i] = NL /\ \A j \in 1..(i - 1) : s[j] # NL
         IN <<SubSeq(s, 1, k - 1)>> \o split(SubSeq(s, k + 1, Len(s)))

\* '\n'.join(lines)
RECURSIVE join(_)
join(lines) ==
    IF lines = <<>> THEN <<>>
    ELSE IF Len(lines) = 1 THEN lines[1]
    ELSE lines[1] \o <<NL>> \o join(Tail(lines))

\* lines[lo:hi] of Python (0-based, half-open).
Slice(lines, lo, hi) == SubSeq(lines, lo + 1, hi)

(* ------------------- difflib.SequenceMatcher (lines) ------------------ *)

\* Length of the common run of a from i and b from j (0-based), inside
\* a[..ahi) and b[..bhi).
RECURSIVE RunLen(_, _, _, _, _, _)
RunLen(a, b, i, j, ahi, bhi) ==
    IF i < ahi /\ j < bhi /\ a[i + 1] = b[j + 1]
    THEN 1 + RunLen(a, b, i + 1, j + 1, ahi, bhi)
    ELSE 0

\* find_longest_match(alo, ahi, blo, bhi): the longest matching block; of the
\* longest, the one starting earliest in a, and of those earliest in b.
find_longest_match(a, b, alo, ahi, blo, bhi) ==
    LET cand == { <<i, j, RunLen(a, b, i, j, ahi, bhi)>> :
                      i \in alo..(ahi - 1), j \in blo..(bhi - 1) }
        pos  == { c \in cand : c[3] > 0 }
    IN IF pos = {} THEN <<alo, blo, 0>>
       ELSE CHOOSE c \in pos :
              \A d \in pos :
                 \/ c[3] > d[3]
                 \/ c[3] = d[3] /\ c[1] < d[1]
                 \/ c[3] = d[3] /\ c[1] = d[1] /\ c[2] <= d[2]

\* get_matching_blocks, before the closing (la, lb, 0): the blocks in order.
RECURSIVE matching_blocks(_, _, _, _, _, _)
matching_blocks(a, b, alo, ahi, blo, bhi) ==
    LET m == find_longest_match(a, b, alo, ahi, blo, bhi)
        i == m[1]
        j == m[2]
        k == m[3]
    IN IF k = 0 THEN <<>>
       ELSE (IF alo < i /\ blo < j
             THEN matching_blocks(a, b, alo, i, blo, j) ELSE <<>>)
            \o <<m>>
            \o (IF i + k < ahi /\ j + k < bhi
                THEN matching_blocks(a, b, i + k, ahi, j + k, bhi) ELSE <<>>)

\* The collapse of adjacent blocks in get_matching_blocks.
RECURSIVE collapse(_)
collapse(blocks) ==
    IF Len(blocks) < 2 THEN blocks
    ELSE LET x == blocks[1]
             y == blocks[2]
         IN IF x[1] + x[3] = y[1] /\ x[2] + x[3] = y[2]
            THEN collapse(<<<<x[1], x[2], x[3] + y[3]>>>> \o SubSeq(blocks, 3, Len(blocks)))
            ELSE <<x>> \o collapse(Tail(blocks))

get_matching_blocks(a, b) ==
    collapse(matching_blocks(a, b, 0, Len(a), 0, Len(b))) \o <<<<Len(a), Len(b), 0>>>>

\* get_opcodes: <<tag, i1, i2, j1, j2>>, 0-based half-open ranges.
RECURSIVE opcodes_from(_, _, _)
opcodes_from(blocks, i, j) ==
    IF blocks = <<>> THEN <<>>
    ELSE LET ai   == blocks[1][1]
             bj   == blocks[1][2]
             size == blocks[1][3]
             tag  == IF i < ai /\ j < bj THEN "replace"
                     ELSE IF i < ai THEN "delete"
                     ELSE IF j < bj THEN "insert"
                     ELSE ""
         IN (IF tag # "" THEN <<<<tag, i, ai, j, bj>>>> ELSE <<>>)
            \o (IF size > 0 THEN <<<<"equal", ai, ai + size, bj, bj + size>>>> ELSE <<>>)
            \o opcodes_from(Tail(blocks), ai + size, bj + size)

get_opcodes(a, b) == opcodes_from(get_matching_blocks(a, b), 0, 0)

(* ------------------------------- state -------------------------------- *)

VARIABLES
    document_versions,  \* table document_versions: a set of rows
    document_changes,   \* table document_changes: rows in insertion order
    corp_docs,          \* table corp_docs: document id -> its row
    auto_increment,     \* next AUTO_INCREMENT id of each table
    pool,               \* the pool's free connections, next to be acquired first
    last_insert_id,     \* LAST_INSERT_ID() of each connection
    pc,                 \* where each caller stands in its call
    frame,              \* the locals of each caller's call
    result,             \* how each caller's last call ended
    faults,             \* storage failures so far
    completed,          \* history: successful calls so far, per document
    before,             \* history: the store when the sequential caller's call began
    assigned,           \* history: (document, number, id) of every version row inserted
    response,           \* what the last read request was answered
    analysis,           \* a change analysis on its own: its inputs and its result
    versioning          \* the path-keyed /versioning endpoint: its table, its
                        \* query cache, the request being served and its answer

vars == <<document_versions, document_changes, corp_docs, auto_increment, pool,
          last_insert_id, pc, frame, result, faults, completed, before, assigned,
          response, analysis, versioning>>

store == <<document_versions, document_changes, corp_docs>>

\* aiomysql.create_pool(minsize=1, maxsize=5, ...): the connections open from
\* the start and the most the pool ever opens.
minsize == 1

maxsize == 5

Conns == 1..maxsize

\* Upload types a caller of create_document_version passes.
CallerUploadTypes == {"update"}

NoFrame ==
    [op |-> "none", document_id |-> 0, content |-> <<>>, upload_type |-> "none",
     target_version |-> 0, current_max |-> 0, new_version_number |-> 0,
     version_id |-> 0, changes |-> <<>>,
     \* history: the id of the version row the call inserted
     inserted |-> 0]

\* No read request has been answered yet.
NoComparison ==
    [version1 |-> [number |-> 0, content |-> <<>>],
     version2 |-> [number |-> 0, content |-> <<>>],
     changes |-> <<>>,
     statistics |-> [additions |-> 0, deletions |-> 0, modifications |-> 0,
                     total_changes |-> 0]]

NoResponse ==
    [op |-> "none", document_id |-> 0, version1 |-> 0, version2 |-> 0, limit |-> 0,
     outcome |-> "none", comparison |-> NoComparison, versions |-> <<>>,
     \* history: the version numbers the document had when it was answered
     numbers |-> {}]

\* No analysis is being run on its own.
NoAnalysis ==
    [op |-> "none", old |-> <<>>, new |-> <<>>, change_type |-> "none",
     done |-> FALSE, changes |-> <<>>, impact |-> "none"]

\* The state after construction, but for `analysis`.
Constructed ==
    /\ document_versions = {}
    /\ document_changes = <<>>
    /\ corp_docs = [d \in AllDocs |-> [current_version_id |-> 0, version_count |-> 0]]
    /\ auto_increment = [versions |-> 1, changes |-> 1]
    /\ pool = [i \in 1..minsize |-> i]
    /\ last_insert_id = [c \in Conns |-> 0]
    /\ pc = [p \in Procs |-> "idle"]
    /\ frame = [p \in Procs |-> NoFrame]
    /\ result = [p \in Procs |-> "none"]
    /\ faults = 0
    /\ completed = [d \in AllDocs |-> 0]
    /\ before = store
    /\ assigned = {}
    /\ response = NoResponse

\* The /versioning endpoint before its first request: no request being
\* served, nothing answered, an empty table and an empty query cache.
NoCall ==
    [document_path |-> 0, content |-> <<>>, current_max |-> 0, next_version |-> 0,
     latest_version |-> <<>>]

NoAnswer == [status_code |-> 0, detail |-> "", version_number |-> 0]

\* os.getenv("ENABLE_EDGE_CACHING", "false"): fixed when the service starts.
Deployed(ENABLE_EDGE_CACHING) ==
    [ENABLE_EDGE_CACHING |-> ENABLE_EDGE_CACHING,
     document_versions   |-> {},
     documents_meta      |-> {},
     _cache              |-> <<>>,
     pc                  |-> "idle",
     call                |-> NoCall,
     answer              |-> NoAnswer,
     found               |-> {}]

Init == Constructed /\ analysis = NoAnalysis /\ versioning = Deployed(FALSE)

(* ------------------------------ storage ------------------------------- *)

VersionsOf(rows, d) == { r \in rows : r.document_id = d }

\* SELECT MAX(version_number) ... ; `current_max or 0` turns NULL into 0.
CountVersions(rows, d) == Cardinality(VersionsOf(rows, d))

MaxVersion(rows, d) ==
    IF VersionsOf(rows, d) = {} THEN 0
    ELSE CHOOSE n \in { r.version_number : r \in VersionsOf(rows, d) } :
             \A r \in VersionsOf(rows, d) : r.version_number <= n

RowsAt(rows, d, n) == { r \in VersionsOf(rows, d) : r.version_number = n }

\* The versions table's uniqueness constraint on (document_id, version_number).
NoConstraint(rows, row) == TRUE

UniqueDocVersion(rows, row) ==
    RowsAt(rows, row.document_id, row.version_number) = {}

\* execute(): a statement runs on the connection the pool hands out and the
\* connection goes back to the end of the free list; `id` is the AUTO_INCREMENT
\* id the statement generated (0: none).
conn == Head(pool)

Execute(id) ==
    /\ pool' = Append(Tail(pool), Head(pool))
    /\ last_insert_id' = IF id = 0 THEN last_insert_id
                         ELSE [last_insert_id EXCEPT ![conn] = id]

(* ------------------------------- calls -------------------------------- *)

Goto(p, label) == pc' = [pc EXCEPT ![p] = label]

\* What stays of a call's locals once it has ended: what it was asked, what it
\* read and what it returns; the list of changes still to insert is dropped.
Ended(f) == [f EXCEPT !.changes = <<>>]

\* The call ends by raising `error`.
Raise(p, error) ==
    /\ pc' = [pc EXCEPT ![p] = "idle"]
    /\ result' = [result EXCEPT ![p] = error]
    /\ frame' = [frame EXCEPT ![p] = Ended(@)]
    /\ UNCHANGED completed

\* create_document_version returns version_id.
Return(p) ==
    /\ pc' = [pc EXCEPT ![p] = "idle"]
    /\ result' = [result EXCEPT ![p] = "ok"]
    /\ frame' = [frame EXCEPT ![p] = Ended(@)]
    /\ completed' = [completed EXCEPT ![frame[p].document_id] = @ + 1]

\* A caller enters create_document_version.
CallCreate(p, d, content, upload_type) ==
    /\ pc[p] = "idle"
    /\ frame' = [frame EXCEPT ![p] =
                    [NoFrame EXCEPT !.op = "create", !.document_id = d,
                                    !.content = content, !.upload_type = upload_type]]
    /\ Goto(p, "select_max")
    /\ result' = [result EXCEPT ![p] = "none"]
    /\ UNCHANGED <<assigned, store, auto_increment, pool, last_insert_id, faults,
                   completed>>

\* A caller enters rollback_to_version.
CallRollback(p, d, target_version) ==
    /\ pc[p] = "idle"
    /\ frame' = [frame EXCEPT ![p] =
                    [NoFrame EXCEPT !.op = "rollback", !.document_id = d,
                                    !.target_version = target_version]]
    /\ Goto(p, "select_target")
    /\ result' = [result EXCEPT ![p] = "none"]
    /\ UNCHANGED <<assigned, store, auto_increment, pool, last_insert_id, faults,
                   completed>>

\* rollback_to_version: SELECT path, content ... WHERE version_number = target;
\* no row raises ValueError, else create_document_version is called with the
\* row's content and UploadType.ROLLBACK.
TargetOrLatest(rows, d, n) ==
    IF RowsAt(rows, d, n) = {} THEN RowsAt(rows, d, MaxVersion(rows, d))
    ELSE RowsAt(rows, d, n)

TargetResult(rows, d, n) == RowsAt(rows, d, n)

SelectTarget(p) ==
    /\ pc[p] = "select_target"
    /\ LET f == frame[p]
           target_result == TargetResult(document_versions, f.document_id, f.target_version)
       IN IF target_result = {}
          THEN Raise(p, "ValueError: not found")
          ELSE /\ \E target_data \in target_result :
                     frame' = [frame EXCEPT ![p].content = target_data.content,
                                            ![p].upload_type = "rollback"]
               /\ Goto(p, "select_max")
               /\ UNCHANGED <<result, completed>>
    /\ Execute(0)
    /\ UNCHANGED <<assigned, store, auto_increment, faults>>

\* create_document_version: SELECT MAX(version_number).
NextNumberSkips(current_max) == current_max + 2

NextNumber(current_max) == current_max + 1

SelectMax(p) ==
    /\ pc[p] = "select_max"
    /\ LET current_max == MaxVersion(document_versions, frame[p].document_id)
       IN /\ frame' = [frame EXCEPT ![p].current_max = current_max,
                                    ![p].new_version_number = NextNumber(current_max)]
          /\ Goto(p, IF current_max # 0 THEN "select_hash" ELSE "insert")
    /\ Execute(0)
    /\ UNCHANGED <<assigned, store, auto_increment, result, faults, completed>>

\* The duplicate check: the hash of the row numbered current_max against the
\* new content's hash.
NeverDuplicate(latest_version_result, content) == FALSE

DuplicateOfAnyVersion(latest_version_result, content) ==
    \E latest \in latest_version_result :
       \E row \in VersionsOf(document_versions, latest.document_id) :
          row.content_hash = _calculate_hash(content)

IsDuplicate(latest_version_result, content) ==
    \E row \in latest_version_result : row.content_hash = _calculate_hash(content)

SelectHash(p) ==
    /\ pc[p] = "select_hash"
    /\ LET f == frame[p]
           latest_version_result == RowsAt(document_versions, f.document_id, f.current_max)
       IN IF IsDuplicate(latest_version_result, f.content)
          THEN Raise(p, "ValueError: no changes")
          ELSE /\ Goto(p, "insert")
               /\ UNCHANGED <<frame, result, completed>>
    /\ Execute(0)
    /\ UNCHANGED <<assigned, store, auto_increment, faults>>

\* INSERT INTO document_versions (..., is_current) VALUES (..., TRUE)
NewVersionRowDefaultType(id, f) ==
    [id |-> id, document_id |-> f.document_id,
     version_number |-> f.new_version_number, content |-> f.content,
     content_hash |-> _calculate_hash(f.content), upload_type |-> "update",
     is_current |-> TRUE]

NewVersionRow(id, f) ==
    [id |-> id, document_id |-> f.document_id,
     version_number |-> f.new_version_number, content |-> f.content,
     content_hash |-> _calculate_hash(f.content), upload_type |-> f.upload_type,
     is_current |-> TRUE]

InsertVersion(p) ==
    /\ pc[p] = "insert"
    /\ LET row == NewVersionRow(auto_increment.versions, frame[p])
       IN IF UniqueDocVersion(document_versions, row)
          THEN /\ document_versions' = document_versions \cup {row}
               /\ auto_increment' = [auto_increment EXCEPT !.versions = @ + 1]
               /\ frame' = [frame EXCEPT ![p].inserted = row.id]
               /\ assigned' = assigned \cup {[document_id |-> row.document_id,
                                               version_number |-> row.version_number,
                                               id |-> row.id]}
               /\ Execute(row.id)
               /\ Goto(p, "last_insert_id")
               /\ UNCHANGED <<result, completed>>
          ELSE /\ Raise(p, "IntegrityError")
               /\ Execute(0)
               /\ UNCHANGED <<document_versions, auto_increment, assigned>>
    /\ UNCHANGED <<document_changes, corp_docs, faults>>

\* SELECT LAST_INSERT_ID() as id
SelectLastInsertId(p) ==
    /\ pc[p] = "last_insert_id"
    /\ frame' = [frame EXCEPT ![p].version_id = last_insert_id[conn]]
    /\ Goto(p, IF frame[p].current_max # 0 THEN "demote" ELSE "update_corp")
    /\ Execute(0)
    /\ UNCHANGED <<assigned, store, auto_increment, result, faults, completed>>

\* UPDATE document_versions SET is_current = FALSE
\*   WHERE document_id = %s AND version_number = current_max
DemoteDeletes(rows, d, n) ==
    { r \in rows : ~(r.document_id = d /\ r.version_number = n) }

DemoteRows(rows, d, n) ==
    { IF r.document_id = d /\ r.version_number = n
      THEN [r EXCEPT !.is_current = FALSE] ELSE r : r \in rows }

Demote(p) ==
    /\ pc[p] = "demote"
    /\ document_versions' =
           DemoteRows(document_versions, frame[p].document_id, frame[p].current_max)
    /\ Goto(p, "update_corp")
    /\ Execute(0)
    /\ UNCHANGED <<assigned, document_changes, corp_docs, auto_increment, frame, result,
                   faults, completed>>

\* UPDATE corp_docs SET current_version_id = %s, version_count = %s WHERE id = %s;
\* a first version has nothing to analyze and the call returns.
UpdateCorpDocs(p) ==
    /\ pc[p] = "update_corp"
    /\ LET f == frame[p]
       IN /\ corp_docs' = [corp_docs EXCEPT ![f.document_id] =
                              [current_version_id |-> f.version_id,
                               version_count |-> f.new_version_number]]
          /\ IF f.current_max # 0
             THEN Goto(p, "analyze") /\ UNCHANGED <<frame, result, completed>>
             ELSE Return(p)
    /\ Execute(0)
    /\ UNCHANGED <<assigned, document_versions, document_changes, auto_increment, faults>>
(* --------------------------- change analysis -------------------------- *)

\* The characters of a string literal, as a content string.
Str(literal) == [i \in 1..Len(literal) |-> SubSeq(literal, i, i)]

\* str.lower(), on ASCII letters.
UpperCase == Str("ABCDEFGHIJKLMNOPQRSTUVWXYZ")

LowerCase == Str("abcdefghijklmnopqrstuvwxyz")

lower(text) ==
    [i \in 1..Len(text) |->
        IF \E k \in 1..Len(UpperCase) : UpperCase[k] = text[i]
        THEN LowerCase[CHOOSE k \in 1..Len(UpperCase) : UpperCase[k] = text[i]]
        ELSE text[i]]

\* keyword in text
Contains(text, keyword) ==
    \E i \in 1..(Len(text) - Len(keyword) + 1) :
        SubSeq(text, i, i + Len(keyword) - 1) = keyword

\* any(keyword in text for keyword in keywords)
ContainsAny(text, keywords) == \E keyword \in keywords : Contains(text, keyword)

\* len(text.split()): the words of a text, separated by whitespace.
Whitespace == {" ", NL, "\t", "\r"}

WordCount(text) ==
    Cardinality({ i \in 1..Len(text) :
                    /\ text[i] \notin Whitespace
                    /\ (i = 1 \/ text[i - 1] \in Whitespace) })

\* SequenceMatcher(None, a, b).ratio() is 2 * matches / (len(a) + len(b)), and
\* 1 for two empty texts; SimilarityBelow compares it with tenths / 10.
\* (Texts of 200 characters and more, where difflib drops popular characters
\* from the index, are out of the model.)
RECURSIVE SumSizes(_)
SumSizes(blocks) ==
    IF blocks = <<>> THEN 0 ELSE blocks[1][3] + SumSizes(Tail(blocks))

SimilarityBelow(a, b, tenths) ==
    LET matches == SumSizes(get_matching_blocks(a, b))
        length  == Len(a) + Len(b)
    IN IF length = 0 THEN 10 < tenths
       ELSE 2 * matches * 10 < tenths * length

\* _assess_change_impact
critical_keywords ==
    { Str("shall"), Str("must"), Str("required"), Str("mandatory"),
      Str("compliance"), Str("regulation"), Str("legal"), Str("penalty"),
      Str("violation"), Str("audit"), Str("security"), Str("privacy"),
      Str("confidential"), Str("restricted") }

high_impact_keywords ==
    { Str("policy"), Str("procedure"), Str("process"), Str("control"),
      Str("standard"), Str("responsibility"), Str("authority"),
      Str("approval"), Str("review") }

AssessHighFirst(old_text, new_text, change_type) ==
    LET combined_text == lower(old_text \o Str(" ") \o new_text)
    IN IF ContainsAny(combined_text, high_impact_keywords) THEN "high"
       ELSE IF ContainsAny(combined_text, critical_keywords) THEN "critical"
       ELSE IF change_type = "deleted" THEN "high"
       ELSE IF change_type = "added" THEN "medium"
       ELSE IF SimilarityBelow(old_text, new_text, 3) THEN "high"
       ELSE IF SimilarityBelow(old_text, new_text, 7) THEN "medium"
       ELSE "low"

_assess_change_impact(old_text, new_text, change_type) ==
    LET combined_text == lower(old_text \o Str(" ") \o new_text)
    IN IF ContainsAny(combined_text, critical_keywords) THEN "critical"
       ELSE IF ContainsAny(combined_text, high_impact_keywords) THEN "high"
       ELSE IF change_type = "deleted" THEN "high"
       ELSE IF change_type = "added" THEN "medium"
       ELSE IF SimilarityBelow(old_text, new_text, 3) THEN "high"
       ELSE IF SimilarityBelow(old_text, new_text, 7) THEN "medium"
       ELSE "low"

\* _generate_change_summary: the sentence and the number put into it.
_generate_change_summary(old_text, new_text, change_type) ==
    LET old_words == WordCount(old_text)
        new_words == WordCount(new_text)
    IN IF change_type = "added"
       THEN [text |-> "Added {words} words of new content", words |-> new_words]
       ELSE IF change_type = "deleted"
       THEN [text |-> "Deleted {words} words of content", words |-> old_words]
       ELSE IF new_words > old_words
       THEN [text |-> "Modified content, added {} words",
             words |-> new_words - old_words]
       ELSE IF new_words < old_words
       THEN [text |-> "Modified content, removed {} words",
             words |-> old_words - new_words]
       ELSE [text |-> "Modified {old_words} words of content", words |-> old_words]

\* _analyze_compliance_impact; the frameworks in the order of the dict.
Frameworks == <<"GDPR", "SOX", "HIPAA", "ISO27001", "PCI DSS">>

framework_keywords ==
    [framework \in {"GDPR", "SOX", "HIPAA", "ISO27001", "PCI DSS"} |->
        CASE framework = "GDPR" ->
                { Str("gdpr"), Str("data protection"), Str("personal data"),
                  Str("privacy"), Str("consent"), Str("data subject") }
          [] framework = "SOX" ->
                { Str("sox"), Str("sarbanes"), Str("financial"),
                  Str("internal control"), Str("audit"),
                  Str("financial reporting") }
          [] framework = "HIPAA" ->
                { Str("hipaa"), Str("health"), Str("medical"),
                  Str("patient"), Str("phi"),
                  Str("protected health information") }
          [] framework = "ISO27001" ->
                { Str("iso27001"), Str("information security"),
                  Str("security management"), Str("risk management") }
          [] framework = "PCI DSS" ->
                { Str("pci"), Str("payment card"), Str("cardholder"),
                  Str("payment data"), Str("card data") }]

\* The result without 'analysis_date', the clock's reading.
ReviewWhenCritical(old_text, new_text) ==
    [affected_frameworks |-> <<>>,
     requires_review |->
        ContainsAny(lower(old_text \o Str(" ") \o new_text), critical_keywords)]

_analyze_compliance_impact(old_text, new_text) ==
    LET combined_text == lower(old_text \o Str(" ") \o new_text)
        Affected(framework) == ContainsAny(combined_text, framework_keywords[framework])
        affected_frameworks == SelectSeq(Frameworks, Affected)
    IN [affected_frameworks |-> affected_frameworks,
        requires_review |-> Len(affected_frameworks) > 0]

\* json.dumps(value), and json.loads of what a column holds (an empty column
\* reads as {}).
json_dumps(value) == <<"json", value>>

json_loads(column) == column[2]

\* _map_diff_tag_to_change_type
MapEveryTagToModified(tag) == "modified"

_map_diff_tag_to_change_type(tag) ==
    IF tag = "insert" THEN "added"
    ELSE IF tag = "delete" THEN "deleted"
    ELSE "modified"

\* The body of the loop over get_opcodes(): the change record of one opcode.
ChangeOfZeroBased(op, old_version, new_version, old_lines, new_lines) ==
    [from_version_id   |-> old_version.id,
     to_version_id     |-> new_version.id,
     change_type       |-> _map_diff_tag_to_change_type(op[1]),
     old_content       |-> join(Slice(old_lines, op[2], op[3])),
     new_content       |-> join(Slice(new_lines, op[4], op[5])),
     line_start        |-> op[2],
     line_end          |-> op[3],
     change_summary    |-> [text |-> "Content changed", words |-> 0],
     impact_assessment |-> "low",
     compliance_impact |-> json_dumps([affected_frameworks |-> <<>>,
                                       requires_review |-> FALSE])]

ChangeOf(op, old_version, new_version, old_lines, new_lines) ==
    LET i1 == op[2]
        i2 == op[3]
        j1 == op[4]
        j2 == op[5]
        change_type == _map_diff_tag_to_change_type(op[1])
        old_text == IF i1 < i2 THEN join(Slice(old_lines, i1, i2)) ELSE <<>>
        new_text == IF j1 < j2 THEN join(Slice(new_lines, j1, j2)) ELSE <<>>
    IN [from_version_id   |-> old_version.id,
        to_version_id     |-> new_version.id,
        change_type       |-> change_type,
        old_content       |-> old_text,
        new_content       |-> new_text,
        line_start        |-> i1 + 1,
        line_end          |-> i2,
        change_summary    |-> _generate_change_summary(old_text, new_text, change_type),
        impact_assessment |-> _assess_change_impact(old_text, new_text, change_type),
        compliance_impact |->
            json_dumps(_analyze_compliance_impact(old_text, new_text))]

RECURSIVE ChangesOf(_, _, _, _, _)
ChangesOf(ops, old_version, new_version, old_lines, new_lines) ==
    IF ops = <<>> THEN <<>>
    ELSE (IF ops[1][1] # "equal"
          THEN <<ChangeOf(ops[1], old_version, new_version, old_lines, new_lines)>>
          ELSE <<>>)
         \o ChangesOf(Tail(ops), old_version, new_version, old_lines, new_lines)

\* _analyze_changes, from the two rows to the list `changes`.
NoChanges(old_version, new_version) == <<>>

\* str.splitlines(): no last empty line for a text that ends in a newline.
RECURSIVE splitlines(_)
splitlines(s) ==
    IF s = <<>> THEN <<>>
    ELSE IF \A i \in 1..Len(s) : s[i] # NL THEN <<s>>
    ELSE LET k == CHOOSE i \in 1..Len(s) :
                      s[i] = NL /\ \A j \in 1..(i - 1) : s[j] # NL
         IN <<SubSeq(s, 1, k - 1)>> \o splitlines(SubSeq(s, k + 1, Len(s)))

ComputeChangesSplitlines(old_version, new_version) ==
    LET old_lines == splitlines(old_version.content)
        new_lines == splitlines(new_version.content)
    IN ChangesOf(get_opcodes(old_lines, new_lines), old_version, new_version,
                 old_lines, new_lines)

ComputeChanges(old_version, new_version) ==
    LET old_lines == split(old_version.content)
        new_lines == split(new_version.content)
    IN ChangesOf(get_opcodes(old_lines, new_lines), old_version, new_version,
                 old_lines, new_lines)

\* _analyze_changes: SELECT ... WHERE version_number IN (from, to) ORDER BY
\* version_number; anything but two rows is logged and the analysis skipped.
SelectVersionsToAnalyze(p) ==
    /\ pc[p] = "analyze"
    /\ LET f == frame[p]
           versions_result == RowsAt(document_versions, f.document_id, f.current_max)
                              \cup RowsAt(document_versions, f.document_id,
                                          f.new_version_number)
       IN IF Cardinality(versions_result) # 2
          THEN Return(p)
          ELSE \E old_version, new_version \in versions_result :
                  /\ old_version # new_version
                  /\ old_version.version_number <= new_version.version_number
                  /\ LET changes == ComputeChanges(old_version, new_version)
                     IN IF changes = <<>>
                        THEN Return(p)
                        ELSE /\ frame' = [frame EXCEPT ![p].changes = changes]
                             /\ Goto(p, "insert_change")
                             /\ UNCHANGED <<result, completed>>
    /\ Execute(0)
    /\ UNCHANGED <<assigned, store, auto_increment, faults>>

\* _analyze_changes: one INSERT INTO document_changes of the loop; after the
\* last one create_document_version returns.
InsertChange(p) ==
    /\ pc[p] = "insert_change"
    /\ LET change == Head(frame[p].changes)
           id     == auto_increment.changes
       IN /\ document_changes' = Append(document_changes, change @@ [id |-> id])
          /\ auto_increment' = [auto_increment EXCEPT !.changes = @ + 1]
          /\ Execute(id)
    /\ IF Tail(frame[p].changes) = <<>>
       THEN Return(p)
       ELSE /\ frame' = [frame EXCEPT ![p].changes = Tail(@)]
            /\ UNCHANGED <<pc, result, completed>>
    /\ UNCHANGED <<assigned, document_versions, corp_docs, faults>>

\* execute() raises: the statement a caller is about to run fails in storage
\* (connection lost, timeout); autocommit, so what ran before stays.
Fault(p) ==
    /\ pc[p] # "idle"
    /\ faults < MaxFaults
    /\ faults' = faults + 1
    /\ Raise(p, "StorageError")
    /\ UNCHANGED <<assigned, store, auto_increment, pool, last_insert_id>>

(* ------------------------------- reads -------------------------------- *)

\* ORDER BY version_number: the rows from the lowest number up (rows with
\* the same number by id).
RECURSIVE OrderByVersionNumber(_)
OrderByVersionNumber(rows) ==
    IF rows = {} THEN <<>>
    ELSE LET first == CHOOSE r \in rows :
                         \A o \in rows :
                            \/ r.version_number < o.version_number
                            \/ r.version_number = o.version_number /\ r.id <= o.id
         IN <<first>> \o OrderByVersionNumber(rows \ {first})

\* ORDER BY dc.line_start: the records from the lowest line_start up (records
\* with the same line_start in insertion order).
RECURSIVE OrderByLineStart(_)
OrderByLineStart(changes) ==
    IF changes = <<>> THEN <<>>
    ELSE LET k == CHOOSE i \in 1..Len(changes) :
                     \A j \in 1..Len(changes) :
                        \/ changes[i].line_start < changes[j].line_start
                        \/ changes[i].line_start = changes[j].line_start /\ i <= j
         IN <<changes[k]>>
            \o OrderByLineStart(SubSeq(changes, 1, k - 1)
                                \o SubSeq(changes, k + 1, Len(changes)))

Reverse(s) == [i \in 1..Len(s) |-> s[Len(s) + 1 - i]]

\* get_version_changes: the stored change records of (from_version_id,
\* to_version_id) whose two versions are stored, ordered by line_start.
get_version_changes(rows, changes, from_version_id, to_version_id) ==
    LET Joined(c) == /\ c.from_version_id = from_version_id
                     /\ c.to_version_id = to_version_id
                     /\ \E fv \in rows : fv.id = c.from_version_id
                     /\ \E tv \in rows : tv.id = c.to_version_id
        Parsed(c) == [c EXCEPT !.compliance_impact = json_loads(@)]
        found == OrderByLineStart(SelectSeq(changes, Joined))
    IN [i \in 1..Len(found) |-> Parsed(found[i])]

\* len([c for c in changes if c['change_type'] == change_type])
CountOfType(changes, change_type) ==
    Cardinality({ i \in 1..Len(changes) : changes[i].change_type = change_type })

\* compare_versions: the rows numbered version1 or version2, lowest number
\* first; anything but two rows raises ValueError, else the answer holds the
\* two rows in that order, the stored change records of that pair of ids
\* and their counts.
compare_versions(rows, stored, document_id, version1, version2) ==
    LET versions_result ==
            OrderByVersionNumber({ r \in VersionsOf(rows, document_id) :
                                     r.version_number \in {version1, version2} })
    IN IF Len(versions_result) # 2
       THEN [outcome |-> "ValueError: both versions not found",
             comparison |-> NoComparison]
       ELSE LET v1_data == versions_result[1]
                v2_data == versions_result[2]
                changes == get_version_changes(rows, stored, v1_data.id, v2_data.id)
            IN [outcome |-> "ok",
                comparison |->
                  [version1 |-> [number |-> v1_data.version_number,
                                 content |-> v1_data.content],
                   version2 |-> [number |-> v2_data.version_number,
                                 content |-> v2_data.content],
                   changes |-> changes,
                   statistics |->
                     [additions |-> CountOfType(changes, "added"),
                      deletions |-> CountOfType(changes, "deleted"),
                      modifications |-> CountOfType(changes, "modified"),
                      total_changes |-> Len(changes)]]]

\* get_document_versions: ORDER BY dv.version_number DESC LIMIT limit; the
\* rows found are returned as a list, which is empty when there is none.
\* (The columns joined in from document_version_history are left out.)
get_document_versions(rows, document_id, limit) ==
    LET found == Reverse(OrderByVersionNumber(VersionsOf(rows, document_id)))
    IN [outcome |-> "ok",
        versions |-> SubSeq(found, 1, IF Len(found) < limit THEN Len(found)
                                      ELSE limit)]

\* A connection acquired and released once more.
Released(free) == Append(Tail(free), Head(free))

\* No caller is inside a call.
AllIdle == \A p \in Procs : pc[p] = "idle"

\* The version numbers a document has.
NumbersOf(document_id) ==
    { r.version_number : r \in VersionsOf(document_versions, document_id) }

\* A compare_versions that would store the diff it answers with.
ComparePersists(document_id, version1, version2) ==
    /\ AllIdle
    /\ LET answer == compare_versions(document_versions, document_changes,
                                      document_id, version1, version2)
           found == OrderByVersionNumber(
                      { r \in VersionsOf(document_versions, document_id) :
                          r.version_number \in {version1, version2} })
           changes == IF answer.outcome = "ok"
                      THEN ComputeChanges(found[1], found[2]) ELSE <<>>
       IN /\ response' = [NoResponse EXCEPT !.op = "compare",
                                            !.document_id = document_id,
                                            !.version1 = version1,
                                            !.version2 = version2,
                                            !.outcome = answer.outcome,
                                            !.comparison = answer.comparison,
                                            !.numbers = NumbersOf(document_id)]
          /\ document_changes' =
                document_changes \o [i \in 1..Len(changes) |->
                                       changes[i] @@ [id |-> 0]]
    /\ pool' = Released(pool)
    /\ UNCHANGED <<document_versions, corp_docs, auto_increment, last_insert_id,
                   pc, frame, result, faults, completed, before, assigned, analysis, versioning>>

\* A request compare_versions(document_id, version1, version2), answered
\* between calls: one SELECT, and one more when both rows were found.
CompareVersions(document_id, version1, version2) ==
    /\ AllIdle
    /\ LET answer == compare_versions(document_versions, document_changes,
                                      document_id, version1, version2)
       IN /\ response' = [NoResponse EXCEPT !.op = "compare",
                                            !.document_id = document_id,
                                            !.version1 = version1,
                                            !.version2 = version2,
                                            !.outcome = answer.outcome,
                                            !.comparison = answer.comparison,
                                            !.numbers = NumbersOf(document_id)]
          /\ pool' = IF answer.outcome = "ok" THEN Released(Released(pool))
                     ELSE Released(pool)
    /\ UNCHANGED <<store, auto_increment, last_insert_id, pc, frame, result, faults,
                   completed, before, assigned, analysis, versioning>>

\* A request get_document_versions(document_id, limit), answered between calls.
GetDocumentVersions(document_id, limit) ==
    /\ AllIdle
    /\ LET answer == get_document_versions(document_versions, document_id, limit)
       IN response' = [NoResponse EXCEPT !.op = "versions",
                                         !.document_id = document_id,
                                         !.limit = limit,
                                         !.outcome = answer.outcome,
                                         !.versions = answer.versions,
                                         !.numbers = NumbersOf(document_id)]
    /\ pool' = Released(pool)
    /\ UNCHANGED <<store, auto_increment, last_insert_id, pc, frame, result, faults,
                   completed, before, assigned, analysis, versioning>>

(* ------------------------- external interface ------------------------- *)

\* What a call raised, as an exception class.
ValueErrors == {"ValueError: no changes", "ValueError: not found"}

\* main.py rollback_document_version: the response to the caller for the way
\* rollback_to_version ended; `except ValueError` answers 404 with the
\* exception's message, `except Exception` answers 500.
rollback_document_version(outcome) ==
    IF outcome = "ok" THEN [status_code |-> 200, detail |-> "rollback_complete"]
    ELSE IF outcome \in ValueErrors THEN [status_code |-> 404, detail |-> outcome]
    ELSE [status_code |-> 500, detail |-> "Failed to rollback version"]

(* --------------------------- specifications --------------------------- *)

\* Fewer than `bound` version rows exist.
RoomFor(bound) == Cardinality(document_versions) < bound

\* Callers interleave at every statement and statements may fail.
Next ==
    \/ \E p \in Procs, d \in Docs, content \in ContentPool, t \in CallerUploadTypes :
          /\ RoomFor(MaxVersions)
          /\ CallCreate(p, d, content, t)
          /\ UNCHANGED <<before, response, analysis, versioning>>
    \/ \E p \in Procs, d \in Docs, n \in 1..MaxVersions :
          /\ RoomFor(MaxVersions)
          /\ CallRollback(p, d, n)
          /\ UNCHANGED <<before, response, analysis, versioning>>
    \/ \E p \in Procs : SelectTarget(p) /\ UNCHANGED <<before, response, analysis, versioning>>
    \/ \E p \in Procs : SelectMax(p) /\ UNCHANGED <<before, response, analysis, versioning>>
    \/ \E p \in Procs : SelectHash(p) /\ UNCHANGED <<before, response, analysis, versioning>>
    \/ \E p \in Procs : InsertVersion(p) /\ UNCHANGED <<before, response, analysis, versioning>>
    \/ \E p \in Procs : SelectLastInsertId(p) /\ UNCHANGED <<before, response, analysis, versioning>>
    \/ \E p \in Procs : Demote(p) /\ UNCHANGED <<before, response, analysis, versioning>>
    \/ \E p \in Procs : UpdateCorpDocs(p) /\ UNCHANGED <<before, response, analysis, versioning>>
    \/ \E p \in Procs : SelectVersionsToAnalyze(p) /\ UNCHANGED <<before, response, analysis, versioning>>
    \/ \E p \in Procs : InsertChange(p) /\ UNCHANGED <<before, response, analysis, versioning>>
    \/ \E p \in Procs : Fault(p) /\ UNCHANGED <<before, response, analysis, versioning>>

Spec == Init /\ [][Next]_vars

\* One caller, one call at a time, and storage never fails.
Sequential == CHOOSE p \in Procs : \A q \in Procs : p <= q

\* The statements of the sequential caller's call.
StepSeq ==
    \/ SelectTarget(Sequential) /\ UNCHANGED <<before, response, analysis, versioning>>
    \/ SelectMax(Sequential) /\ UNCHANGED <<before, response, analysis, versioning>>
    \/ SelectHash(Sequential) /\ UNCHANGED <<before, response, analysis, versioning>>
    \/ InsertVersion(Sequential) /\ UNCHANGED <<before, response, analysis, versioning>>
    \/ SelectLastInsertId(Sequential) /\ UNCHANGED <<before, response, analysis, versioning>>
    \/ Demote(Sequential) /\ UNCHANGED <<before, response, analysis, versioning>>
    \/ UpdateCorpDocs(Sequential) /\ UNCHANGED <<before, response, analysis, versioning>>
    \/ SelectVersionsToAnalyze(Sequential) /\ UNCHANGED <<before, response, analysis, versioning>>
    \/ InsertChange(Sequential) /\ UNCHANGED <<before, response, analysis, versioning>>

\* The sequential caller enters a call; `before` records the store it finds.
CallCreateSeq(d, content, t) ==
    /\ RoomFor(MaxVersionsSeq)
    /\ CallCreate(Sequential, d, content, t)
    /\ before' = store
    /\ UNCHANGED <<response, analysis, versioning>>

CallRollbackSeq(d, n) ==
    /\ RoomFor(MaxVersionsSeq)
    /\ CallRollback(Sequential, d, n)
    /\ before' = store
    /\ UNCHANGED <<response, analysis, versioning>>

NextSeq ==
    \/ \E d \in Docs, content \in ContentPool, t \in CallerUploadTypes :
          CallCreateSeq(d, content, t)
    \/ \E d \in Docs, n \in 1..MaxVersionsSeq : CallRollbackSeq(d, n)
    \/ StepSeq

SpecSeq == Init /\ [][NextSeq]_vars
\* The contents of the scenario "a document's second version changes one line".
ScenarioV1 == Str("Section A: must comply.\nSection B: optional.\n")

ScenarioV2 == Str("Section A: must comply.\nSection B: now mandatory.\n")

ScenarioPool == {ScenarioV1, ScenarioV2}

\* The sequential caller working with the scenario's contents.
NextScenario ==
    \/ \E d \in Docs, content \in ScenarioPool, t \in CallerUploadTypes :
          CallCreateSeq(d, content, t)
    \/ \E d \in Docs, n \in 1..MaxVersionsSeq : CallRollbackSeq(d, n)
    \/ StepSeq

SpecScenario == Init /\ [][NextScenario]_vars

\* The sequential caller's calls with read requests answered between them.
NextRead ==
    \/ NextSeq
    \/ \E d \in Docs, version1, version2 \in 1..MaxVersionsSeq :
          CompareVersions(d, version1, version2)
    \/ \E d \in Docs, limit \in 1..MaxLimit :
          GetDocumentVersions(d, limit)

SpecRead == Init /\ [][NextRead]_vars
\* The change analysis on its own. Its inputs: two content strings of up to
\* MaxContentLen characters, or the two texts and the type of one change (an
\* added change has no old text, a deleted one no new text, a modified one
\* two different texts).
ContentChars == {"a", "b", NL}

AllContents == UNION { [1..n -> ContentChars] : n \in 0..MaxContentLen }

TextPool ==
    { Str(""), Str("The policy is optional."),
      Str("The policy is mandatory and required."), Str("MUST stop"),
      Str("Under Review"), Str("abc"), Str("abd"), Str("xyz"), Str("abc def"),
      Str("abc dev") }

AnalysisInputs ==
    { [NoAnalysis EXCEPT !.op = "changes", !.old = old, !.new = new] :
        old \in AllContents, new \in AllContents }
    \cup { [NoAnalysis EXCEPT !.op = "impact", !.new = new, !.change_type = "added"] :
             new \in TextPool }
    \cup { [NoAnalysis EXCEPT !.op = "impact", !.old = old, !.change_type = "deleted"] :
             old \in TextPool }
    \cup { [NoAnalysis EXCEPT !.op = "impact", !.old = texts[1], !.new = texts[2],
                              !.change_type = "modified"] :
             texts \in { t \in TextPool \X TextPool : t[1] # t[2] } }

InitAnalysis ==
    Constructed /\ analysis \in AnalysisInputs /\ versioning = Deployed(FALSE)

\* All the state but `analysis`.
program ==
    <<document_versions, document_changes, corp_docs, auto_increment, pool,
      last_insert_id, pc, frame, result, faults, completed, before, assigned,
      response>>

\* _analyze_changes from the two contents on: the list `changes` it builds
\* for versions with ids 1 and 2.
AnalyzeChanges ==
    /\ analysis.op = "changes"
    /\ ~analysis.done
    /\ analysis' =
          [analysis EXCEPT
              !.done = TRUE,
              !.changes = ComputeChanges([id |-> 1, content |-> analysis.old],
                                         [id |-> 2, content |-> analysis.new])]
    /\ UNCHANGED <<program, versioning>>

\* _assess_change_impact(old_text, new_text, change_type)
AssessImpact ==
    /\ analysis.op = "impact"
    /\ ~analysis.done
    /\ analysis' =
          [analysis EXCEPT
              !.done = TRUE,
              !.impact = _assess_change_impact(analysis.old, analysis.new,
                                               analysis.change_type)]
    /\ UNCHANGED <<program, versioning>>

NextAnalysis ==
    \/ AnalyzeChanges
    \/ AssessImpact

SpecAnalysis == InitAnalysis /\ [][NextAnalysis]_vars
\* Data loss: a version row disappears from storage (a restore from an older
\* backup, a manual DELETE); nothing else changes.
LoseVersionRow(row) ==
    /\ row \in document_versions
    /\ Cardinality(assigned) - Cardinality(document_versions) < MaxLosses
    /\ document_versions' = document_versions \ {row}
    /\ UNCHANGED <<document_changes, corp_docs, auto_increment, pool, last_insert_id,
                   pc, frame, result, faults, completed, before, assigned, response,
                   analysis, versioning>>

\* The sequential caller, with version rows getting lost at any moment; a
\* call starts only while fewer than MaxVersionsSeq rows were ever inserted.
NextLoss ==
    \/ \E d \in Docs, content \in ContentPool, t \in CallerUploadTypes :
          Cardinality(assigned) < MaxVersionsSeq /\ CallCreateSeq(d, content, t)
    \/ \E d \in Docs, n \in 1..MaxVersionsSeq :
          Cardinality(assigned) < MaxVersionsSeq /\ CallRollbackSeq(d, n)
    \/ StepSeq
    \/ \E row \in document_versions : LoseVersionRow(row)

SpecLoss == Init /\ [][NextLoss]_vars
\* Every caller has a document of its own; the callers' create calls
\* interleave at every statement and storage never fails.
DocOf(p) == p

NextOwnDocs ==
    \/ \E p \in Procs, content \in ContentPool, t \in CallerUploadTypes :
          /\ RoomFor(MaxVersions)
          /\ CallCreate(p, DocOf(p), content, t)
          /\ UNCHANGED <<before, response, analysis, versioning>>
    \/ \E p \in Procs : SelectMax(p) /\ UNCHANGED <<before, response, analysis, versioning>>
    \/ \E p \in Procs : SelectHash(p) /\ UNCHANGED <<before, response, analysis, versioning>>
    \/ \E p \in Procs : InsertVersion(p) /\ UNCHANGED <<before, response, analysis, versioning>>
    \/ \E p \in Procs :
          SelectLastInsertId(p) /\ UNCHANGED <<before, response, analysis, versioning>>
    \/ \E p \in Procs : Demote(p) /\ UNCHANGED <<before, response, analysis, versioning>>
    \/ \E p \in Procs : UpdateCorpDocs(p) /\ UNCHANGED <<before, response, analysis, versioning>>
    \/ \E p \in Procs :
          SelectVersionsToAnalyze(p) /\ UNCHANGED <<before, response, analysis, versioning>>
    \/ \E p \in Procs : InsertChange(p) /\ UNCHANGED <<before, response, analysis, versioning>>

SpecOwnDocs == Init /\ [][NextOwnDocs]_vars
\* Statements of several requests overlap between two calls: each takes a
\* free connection, the last one finds none free and the pool, not yet at
\* maxsize, opens one more; all go back to the free list as they finish.
PoolGrows ==
    /\ AllIdle
    /\ Len(pool) < maxsize
    /\ Len(pool) < MaxConns
    /\ \E free \in [1..(Len(pool) + 1) -> 1..(Len(pool) + 1)] :
          /\ \A i, j \in DOMAIN free : free[i] = free[j] => i = j
          /\ pool' = free
    /\ UNCHANGED <<store, auto_increment, last_insert_id, pc, frame, result, faults,
                   completed, before, assigned, response, analysis, versioning>>

\* The sequential caller on a pool that other requests have made grow.
NextPool ==
    \/ NextSeq
    \/ PoolGrows

SpecPool == Init /\ [][NextPool]_vars

(* ---------------------- the /versioning endpoint ---------------------- *)

Paths == 1..NumPaths

\* The statements of create_document_version (document_versioning.py).
SelectMaxOf(document_path) ==
    [verb |-> "SELECT", what |-> "MAX(version_number)", now |-> FALSE,
     params |-> <<document_path>>]

SelectHashOf(document_path, version_number) ==
    [verb |-> "SELECT", what |-> "content_hash", now |-> FALSE,
     params |-> <<document_path, version_number>>]

\* _determine_query_type: none of the endpoint's queries has one of the
\* analytics keywords (GROUP BY, HAVING, SUM(, COUNT(, AVG(, WITH).
_determine_query_type(sql) ==
    IF sql.verb \in {"SELECT", "SHOW", "DESCRIBE", "EXPLAIN"} THEN "read" ELSE "write"

\* _is_cacheable_query: a SELECT without NOW() (or RAND()), with caching on.
_is_cacheable_query(sql) ==
    sql.verb = "SELECT" /\ ~sql.now /\ versioning.ENABLE_EDGE_CACHING

\* _get_cache_key: a digest of the statement text and its parameters.
_get_cache_key(sql) == <<"md5", sql.what, sql.params>>

\* _get_from_cache: the entry stored under the key, if the cache has one.
\* (Entries older than CACHE_TTL_SECONDS are dropped by TtlElapses.)
_get_from_cache(cache_key) ==
    { versioning._cache[i].cached_result :
        i \in { k \in 1..Len(versioning._cache) :
                  versioning._cache[k].cache_key = cache_key } }

\* _store_in_cache: self._cache[cache_key] = (result, datetime.now()); the
\* entries are kept oldest first.
_store_in_cache(cache_key, cached_result) ==
    LET Other(entry) == entry.cache_key # cache_key
    IN Append(SelectSeq(versioning._cache, Other),
              [cache_key |-> cache_key, cached_result |-> cached_result])

\* execute_optimized(sql, params): the rows the statement is answered with and
\* the cache afterwards; `rows` is what the statement gives when it runs.
execute_optimized(sql, rows) ==
    IF _determine_query_type(sql) = "read" /\ _is_cacheable_query(sql)
    THEN IF _get_from_cache(_get_cache_key(sql)) # {}
         THEN [rows   |-> CHOOSE cached_result \in _get_from_cache(_get_cache_key(sql)) : TRUE,
               _cache |-> versioning._cache]
         ELSE [rows |-> rows, _cache |-> _store_in_cache(_get_cache_key(sql), rows)]
    ELSE [rows |-> rows, _cache |-> versioning._cache]

PathRows(rows, document_path) == { r \in rows : r.document_path = document_path }

\* SELECT MAX(version_number) ...; `current_max or 0` turns NULL into 0.
MaxPathVersion(rows, document_path) ==
    IF PathRows(rows, document_path) = {} THEN 0
    ELSE CHOOSE n \in { r.version_number : r \in PathRows(rows, document_path) } :
             \A r \in PathRows(rows, document_path) : r.version_number <= n

\* SELECT content_hash ... WHERE document_path = %s AND version_number = %s
HashesAt(rows, document_path, version_number) ==
    LET hit == { r \in PathRows(rows, document_path) :
                   r.version_number = version_number }
    IN IF hit = {} THEN <<>> ELSE <<(CHOOSE r \in hit : TRUE).content_hash>>

\* The versions table's uniqueness constraint, on (document_path, version_number).
UniquePathVersion(rows, row) ==
    ~\E r \in PathRows(rows, row.document_path) :
        r.version_number = row.version_number

\* raise HTTPException(status_code=400, detail=...) of the unchanged-content check.
ContentUnchanged ==
    [status_code |-> 400, detail |-> "Content unchanged. No new version created.",
     text |-> "400: Content unchanged. No new version created."]

IntegrityError ==
    [status_code |-> 0, detail |-> "", text |-> "(1062, 'Duplicate entry')"]

\* except Exception as e: raise HTTPException(status_code=500,
\*     detail=f"Failed to create version: {str(e)}")
except_Exception(e) ==
    [NoAnswer EXCEPT !.status_code = 500,
                     !.detail = "Failed to create version: " \o e.text]

\* The handler is entered with a path and a content.
CreateVersionRequest(document_path, content) ==
    /\ versioning.pc = "idle"
    /\ Cardinality(versioning.document_versions) < MaxPathVersions
    /\ versioning' = [versioning EXCEPT
                         !.pc = "select_max",
                         !.call = [NoCall EXCEPT !.document_path = document_path,
                                                 !.content = content],
                         !.answer = NoAnswer,
                         !.found = versioning.document_versions]
    /\ UNCHANGED <<program, analysis>>

VersioningSelectMax ==
    /\ versioning.pc = "select_max"
    /\ LET call == versioning.call
           current_version_result ==
               execute_optimized(
                   SelectMaxOf(call.document_path),
                   <<MaxPathVersion(versioning.document_versions, call.document_path)>>)
           current_max == IF current_version_result.rows # <<>>
                          THEN current_version_result.rows[1] ELSE 0
       IN versioning' = [versioning EXCEPT
                            !._cache = current_version_result._cache,
                            !.call.current_max = current_max,
                            !.call.next_version = current_max + 1,
                            !.pc = IF current_max # 0 THEN "select_hash" ELSE "insert"]
    /\ UNCHANGED <<program, analysis>>

VersioningSelectHash ==
    /\ versioning.pc = "select_hash"
    /\ LET call == versioning.call
           latest_version ==
               execute_optimized(
                   SelectHashOf(call.document_path, call.current_max),
                   HashesAt(versioning.document_versions, call.document_path,
                            call.current_max))
       IN IF /\ latest_version.rows # <<>>
             /\ latest_version.rows[1] = _calculate_hash(call.content)
          THEN versioning' = [versioning EXCEPT
                                 !._cache = latest_version._cache,
                                 !.call.latest_version = latest_version.rows,
                                 !.answer = except_Exception(ContentUnchanged),
                                 !.pc = "idle"]
          ELSE versioning' = [versioning EXCEPT
                                 !._cache = latest_version._cache,
                                 !.call.latest_version = latest_version.rows,
                                 !.pc = "demote"]
    /\ UNCHANGED <<program, analysis>>

\* UPDATE document_versions SET is_current = FALSE, valid_to = NOW()
\*   WHERE document_path = %s AND is_current = TRUE
VersioningDemote ==
    /\ versioning.pc = "demote"
    /\ versioning' =
          [versioning EXCEPT
              !.document_versions =
                  { IF r.document_path = versioning.call.document_path
                    THEN [r EXCEPT !.is_current = FALSE] ELSE r : r \in @ },
              !.pc = "insert"]
    /\ UNCHANGED <<program, analysis>>

\* INSERT INTO document_versions (..., is_current) VALUES (..., TRUE)
VersioningInsert ==
    /\ versioning.pc = "insert"
    /\ LET call == versioning.call
           row  == [document_path  |-> call.document_path,
                    version_number |-> call.next_version,
                    content_hash   |-> _calculate_hash(call.content),
                    content        |-> call.content,
                    is_current     |-> TRUE]
       IN IF UniquePathVersion(versioning.document_versions, row)
          THEN versioning' = [versioning EXCEPT !.document_versions = @ \cup {row},
                                                !.pc = "documents_meta"]
          ELSE versioning' = [versioning EXCEPT
                                 !.answer = except_Exception(IntegrityError),
                                 !.pc = "idle"]
    /\ UNCHANGED <<program, analysis>>

\* INSERT INTO documents_meta ... ON DUPLICATE KEY UPDATE ..., then the answer.
VersioningMeta ==
    /\ versioning.pc = "documents_meta"
    /\ versioning' =
          [versioning EXCEPT
              !.documents_meta = @ \cup {versioning.call.document_path},
              !.answer = [NoAnswer EXCEPT
                             !.status_code = 200,
                             !.version_number = versioning.call.next_version],
              !.pc = "idle"]
    /\ UNCHANGED <<program, analysis>>

\* CACHE_TTL_SECONDS go by for the n oldest cache entries: _get_from_cache
\* finds them expired and deletes them.
TtlElapses(n) ==
    /\ n \in 1..Len(versioning._cache)
    /\ versioning' = [versioning EXCEPT
                         !._cache = SubSeq(@, n + 1, Len(@))]
    /\ UNCHANGED <<program, analysis>>

InitVersioning ==
    /\ Constructed
    /\ analysis = NoAnalysis
    /\ \E ENABLE_EDGE_CACHING \in BOOLEAN : versioning = Deployed(ENABLE_EDGE_CACHING)

\* One request at a time to the /versioning create endpoint.
NextVersioning ==
    \/ \E document_path \in Paths, content \in ContentPool :
          CreateVersionRequest(document_path, content)
    \/ VersioningSelectMax
    \/ VersioningSelectHash
    \/ VersioningDemote
    \/ VersioningInsert
    \/ VersioningMeta
    \/ \E n \in 1..Len(versioning._cache) : TtlElapses(n)

SpecVersioning == InitVersioning /\ [][NextVersioning]_vars

(* ------------------------------- claims ------------------------------- *)

\* The sequential caller stands between two calls.
Quiet == pc[Sequential] = "idle"

CurrentOf(rows, d) == { r \in VersionsOf(rows, d) : r.is_current }

\* C1: after N successful calls on a document, run one after another
\* (rollbacks included), its version numbers are exactly 1..N, no number is
\* stored twice, and the one version that is current is the last created.
C1_MonotonicVersioning ==
    Quiet =>
      \A d \in Docs :
        LET rows == VersionsOf(document_versions, d)
        IN /\ { r.version_number : r \in rows } = 1..completed[d]
           /\ Cardinality(rows) = completed[d]
           /\ \A r \in rows :
                 r.is_current <=> (\A other \in rows : other.id <= r.id)
           /\ \A r \in rows : r.is_current <=> r.version_number = completed[d]

\* Three calls in a row have succeeded on one document, one of them a rollback.
C1_Witness ==
    /\ Quiet
    /\ \E d \in Docs :
          /\ completed[d] >= 3
          /\ \E r \in VersionsOf(document_versions, d) : r.upload_type = "rollback"

\* C2: in every state a reader can observe, a document that has a version has
\* exactly one version with is_current = TRUE.
C2_ExactlyOneCurrent ==
    \A d \in Docs :
      VersionsOf(document_versions, d) # {} =>
        Cardinality(CurrentOf(document_versions, d)) = 1

\* C3: no two stored version rows share (document_id, version_number), and a
\* call whose INSERT met an already-used number ended with an error and
\* stored no row.
C3_NoDuplicateNumber ==
    /\ \A r1, r2 \in document_versions :
          (r1.document_id = r2.document_id /\ r1.version_number = r2.version_number)
            => r1 = r2
    /\ \A p \in Procs :
          (pc[p] = "idle" /\ result[p] = "IntegrityError") => frame[p].inserted = 0

\* Two callers read the same maximum; one inserted, the other's INSERT failed.
C3_Witness ==
    \E p, q \in Procs :
      /\ p # q
      /\ pc[p] = "idle" /\ result[p] = "IntegrityError"
      /\ frame[q].inserted # 0
      /\ frame[q].document_id = frame[p].document_id
      /\ frame[q].new_version_number = frame[p].new_version_number

\* The store the sequential caller's call found, and its parts.
versions_before == before[1]

\* The sequential caller's call and whether create_document_version has been
\* entered in it (a rollback enters it once it has read its target).
seq == frame[Sequential]

InCreate == seq.op = "create" \/ (seq.op = "rollback" /\ seq.upload_type = "rollback")

\* C4: create_document_version with the content of the document's current
\* version ends with the duplicate-content error and the store (versions,
\* changes, corp_docs) is at every step what the call found.
C4_DuplicateRejected ==
    (/\ InCreate
     /\ \E r \in CurrentOf(versions_before, seq.document_id) : r.content = seq.content)
    => /\ store = before
       /\ Quiet => result[Sequential] = "ValueError: no changes"

\* A create call with the current version's content has ended.
C4_Witness ==
    /\ Quiet
    /\ seq.op = "create"
    /\ \E r \in CurrentOf(versions_before, seq.document_id) : r.content = seq.content
    /\ result[Sequential] = "ValueError: no changes"
    /\ completed[seq.document_id] >= 2

Errors == {"ValueError: no changes", "ValueError: not found", "IntegrityError",
           "StorageError"}

\* C5: a call that raised left nothing of its own in the store: no version
\* row inserted by it (the demotion, the corp_docs update and the change
\* records all come after the INSERT, so none of those either).
C5_AllOrNothing ==
    \A p \in Procs :
      (pc[p] = "idle" /\ result[p] \in Errors) =>
        ~\E r \in document_versions : r.id = frame[p].inserted

\* The change records stored for the pair (from_version_id, to_version_id).
ChangesBetween(from_id, to_id) ==
    { i \in 1..Len(document_changes) :
        /\ document_changes[i].from_version_id = from_id
        /\ document_changes[i].to_version_id = to_id }

\* C6: a call that returned for a document that had a version has its change
\* records stored, keyed to (prior version id, new version id): at least
\* one, and as many as the analysis of the two contents yields.
C6_ChangesPersisted ==
    \A p \in Procs :
      (pc[p] = "idle" /\ result[p] = "ok" /\ frame[p].current_max # 0) =>
        \E prior, new \in document_versions :
          /\ prior.document_id = frame[p].document_id
          /\ prior.version_number = frame[p].current_max
          /\ new.id = frame[p].inserted
          /\ ChangesBetween(prior.id, new.id) # {}
          /\ Cardinality(ChangesBetween(prior.id, new.id))
                = Len(ComputeChanges(prior, new))

\* A call returned for a document with a prior version while the other
\* caller was in the middle of a call on the same document.
C6_Witness ==
    \E p, q \in Procs :
      /\ pc[p] = "idle" /\ result[p] = "ok" /\ frame[p].current_max # 0
      /\ pc[q] \notin {"idle", "select_max", "select_target"}
      /\ frame[q].document_id = frame[p].document_id
\* The row a rollback of the sequential caller aims at, in the store it found.
TargetBefore == RowsAt(versions_before, seq.document_id, seq.target_version)

CurrentBefore == CurrentOf(versions_before, seq.document_id)

\* C7: a rollback to an existing older version whose content differs from
\* the current version's returns, and the versions table is then the one it
\* found with the old current version demoted and one row more: numbered
\* the previous maximum + 1, upload_type "rollback", current, with exactly
\* the target's content.
C7_RollbackAppends ==
    (/\ Quiet
     /\ seq.op = "rollback"
     /\ \E t \in TargetBefore, c \in CurrentBefore :
           t.version_number < c.version_number /\ t.content # c.content)
    => /\ result[Sequential] = "ok"
       /\ \E new \in document_versions :
             /\ new \notin versions_before
             /\ document_versions
                  = { IF r.document_id = seq.document_id
                      THEN [r EXCEPT !.is_current = FALSE] ELSE r :
                      r \in versions_before } \cup {new}
             /\ Cardinality(document_versions) = Cardinality(versions_before) + 1
             /\ new.document_id = seq.document_id
             /\ new.version_number
                  = MaxVersion(versions_before, seq.document_id) + 1
             /\ new.upload_type = "rollback"
             /\ new.is_current
             /\ \A t \in TargetBefore : new.content = t.content

\* A rollback to a version two below the current one has returned.
C7_Witness ==
    /\ Quiet
    /\ seq.op = "rollback"
    /\ result[Sequential] = "ok"
    /\ \E t \in TargetBefore, c \in CurrentBefore :
          t.version_number + 2 <= c.version_number /\ t.content # c.content

\* C8 as stated: a rollback to the version just below the current one ends
\* with the duplicate-content error and leaves the store as it was.
C8_PrecedingRejected ==
    (/\ Quiet
     /\ seq.op = "rollback"
     /\ \E t \in TargetBefore, c \in CurrentBefore :
           t.version_number = c.version_number - 1)
    => /\ result[Sequential] = "ValueError: no changes"
       /\ store = before

\* C8 as amended: a rollback whose target has the content of the current
\* version (the current version itself, or an older one with the same
\* content) ends with the duplicate-content error and leaves the store as it
\* was; a rollback to the version just below the current one returns.
C8_SameContentRejected ==
    /\ (/\ Quiet
         /\ seq.op = "rollback"
         /\ \E t \in TargetBefore, c \in CurrentBefore : t.content = c.content)
        => /\ result[Sequential] = "ValueError: no changes"
           /\ store = before
    /\ (/\ Quiet
         /\ seq.op = "rollback"
         /\ \E t \in TargetBefore, c \in CurrentBefore :
               t.version_number = c.version_number - 1)
        => result[Sequential] = "ok"

\* A rollback to an older version with the current content was rejected.
C8_Witness ==
    /\ Quiet
    /\ seq.op = "rollback"
    /\ result[Sequential] = "ValueError: no changes"
    /\ \E t \in TargetBefore, c \in CurrentBefore :
          t.version_number < c.version_number /\ t.content = c.content

\* C9: no step removes a version row or changes its document, number,
\* content, hash or upload type; of a stored row only is_current changes.
C9_AppendOnly ==
    [][\A r \in document_versions :
         \E r2 \in document_versions' :
            r2 = [r EXCEPT !.is_current = r2.is_current]]_vars

\* A version has been demoted and a rollback version appended after it.
C9_Witness ==
    \E r1, r2 \in document_versions :
      /\ r1.document_id = r2.document_id
      /\ ~r1.is_current
      /\ r2.upload_type = "rollback"
      /\ r1.version_number < r2.version_number

\* C10: a rollback to a version number the document does not have ends with
\* the not-found error, and the store is at every step what the call found.
C10_RollbackNotFound ==
    (seq.op = "rollback" /\ TargetBefore = {})
    => /\ store = before
       /\ Quiet => result[Sequential] = "ValueError: not found"

\* A rollback of a document that has versions, to a number it lacks, has ended.
C10_Witness ==
    /\ Quiet
    /\ seq.op = "rollback"
    /\ TargetBefore = {}
    /\ VersionsOf(versions_before, seq.document_id) # {}
    /\ result[Sequential] = "ValueError: not found"

\* C11: a rollback rejected because its target has the current content is
\* answered at the interface with another status than the 404 a rollback to
\* a missing version is answered with.
C11_DuplicateNotReportedNotFound ==
    (/\ Quiet
     /\ seq.op = "rollback"
     /\ result[Sequential] = "ValueError: no changes")
    => rollback_document_version(result[Sequential]).status_code
         # rollback_document_version("ValueError: not found").status_code

\* C12: compare_versions is answered with a comparison when both version
\* numbers exist for the document (the same number twice included), and with
\* the not-found error exactly when one of them does not.
C12_CompareExactlyWhenBothExist ==
    response.op = "compare" =>
      /\ {response.version1, response.version2} \subseteq response.numbers
           <=> response.outcome = "ok"
      /\ ~({response.version1, response.version2} \subseteq response.numbers)
           <=> response.outcome = "ValueError: both versions not found"

\* The stored rows a comparison's two versions were read from.
ComparedRows ==
    { pair \in document_versions \X document_versions :
        /\ pair[1].document_id = response.document_id
        /\ pair[2].document_id = response.document_id
        /\ pair[1].version_number = response.comparison.version1.number
        /\ pair[2].version_number = response.comparison.version2.number }

\* C13: a comparison of two versions with different contents, between which
\* no change record is stored, carries a non-empty change list and the
\* counts of that list.
C13_OnDemandDiff ==
    (/\ response.op = "compare"
     /\ response.outcome = "ok"
     /\ response.comparison.version1.content # response.comparison.version2.content
     /\ \E pair \in ComparedRows : ChangesBetween(pair[1].id, pair[2].id) = {})
    => /\ response.comparison.changes # <<>>
       /\ response.comparison.statistics.total_changes
            = Len(response.comparison.changes)

\* C14: when compare_versions(doc, 1, 2) has been answered, the answer to
\* compare_versions(doc, 2, 1) has the same total_changes and modifications
\* and has additions and deletions the other way round.
C14_SwappedStatistics ==
    (/\ response.op = "compare"
     /\ response.outcome = "ok"
     /\ response.version1 = 1
     /\ response.version2 = 2)
    => LET forward  == response.comparison.statistics
           backward == compare_versions(document_versions, document_changes,
                                        response.document_id, 2, 1).comparison.statistics
       IN /\ forward.total_changes = backward.total_changes
          /\ forward.modifications = backward.modifications
          /\ forward.additions = backward.deletions
          /\ forward.deletions = backward.additions

\* The scenario has run: the document's first two versions are ScenarioV1
\* and ScenarioV2 and the second call has just returned.
ScenarioRan(d, v1, v2) ==
    /\ Quiet
    /\ result[Sequential] = "ok"
    /\ completed[d] = 2
    /\ v1.document_id = d /\ v1.version_number = 1 /\ v1.content = ScenarioV1
    /\ v2.document_id = d /\ v2.content = ScenarioV2
    /\ v2.id = seq.inserted

\* What the scenario is to leave, but for requires_review: version 2 is
\* current and version 1 is not, and one change record is stored for the
\* pair: modified, starting at line 2, critical.
ScenarioOutcome(v1, v2) ==
    /\ v2.version_number = 2
    /\ v2.is_current /\ ~v1.is_current
    /\ Cardinality(ChangesBetween(v1.id, v2.id)) = 1
    /\ \A i \in ChangesBetween(v1.id, v2.id) :
          /\ document_changes[i].change_type = "modified"
          /\ document_changes[i].line_start = 2
          /\ document_changes[i].impact_assessment = "critical"

RequiresReview(v1, v2, value) ==
    \A i \in ChangesBetween(v1.id, v2.id) :
       json_loads(document_changes[i].compliance_impact).requires_review = value

\* C15 as stated: after the scenario version 2 is numbered 2 and current,
\* version 1 is not current, and the one change record of the pair is
\* modified, at line 2, critical, with requires_review true.
C15_ScenarioRequiresReview ==
    \A d \in Docs : \A v1, v2 \in document_versions :
       ScenarioRan(d, v1, v2) =>
          ScenarioOutcome(v1, v2) /\ RequiresReview(v1, v2, TRUE)

\* C15 as amended: the same, but the change record has requires_review false
\* and no affected framework: the changed lines hold no framework keyword.
C15_ScenarioNoReview ==
    \A d \in Docs : \A v1, v2 \in document_versions :
       ScenarioRan(d, v1, v2) =>
          /\ ScenarioOutcome(v1, v2)
          /\ RequiresReview(v1, v2, FALSE)
          /\ \A i \in ChangesBetween(v1.id, v2.id) :
                json_loads(document_changes[i].compliance_impact).affected_frameworks
                   = <<>>

\* The scenario has run.
C15_Witness ==
    \E d \in Docs : \E v1, v2 \in document_versions :
       ScenarioRan(d, v1, v2) /\ ChangesBetween(v1.id, v2.id) # {}

\* A change analysis of two different contents has been run.
Analyzed ==
    analysis.op = "changes" /\ analysis.done /\ analysis.old # analysis.new

\* C16: the change analysis of two different content strings yields at
\* least one change record.
C16_DistinctContentsChange == Analyzed => analysis.changes # <<>>

\* Two contents that differ only in a newline at the end have been analyzed.
C16_Witness ==
    /\ Analyzed
    /\ analysis.new = analysis.old \o <<NL>>
    /\ analysis.old # <<>>
    /\ Len(analysis.changes) = 1

\* The old_content (new_content) fields of a list of change records.
OldContents(changes) == [i \in 1..Len(changes) |-> changes[i].old_content]

NewContents(changes) == [i \in 1..Len(changes) |-> changes[i].new_content]

\* C17 as stated: the old_content fields of the change records, joined by
\* newlines in line_start order, are the old content, and the new_content
\* fields the new content.
C17_FieldsReconstruct ==
    Analyzed =>
      /\ join(OldContents(analysis.changes)) = analysis.old
      /\ join(NewContents(analysis.changes)) = analysis.new

\* The lines a change record takes out of the old content and the lines it
\* puts in their place.
RemovedLines(change) ==
    IF change.change_type = "added" THEN <<>> ELSE split(change.old_content)

InsertedLines(change) ==
    IF change.change_type = "deleted" THEN <<>> ELSE split(change.new_content)

\* The lines with every change applied, the last change first.
RECURSIVE Patch(_, _)
Patch(lines, changes) ==
    IF changes = <<>> THEN lines
    ELSE LET change == changes[Len(changes)]
         IN Patch(SubSeq(lines, 1, change.line_start - 1)
                     \o InsertedLines(change)
                     \o SubSeq(lines, change.line_end + 1, Len(lines)),
                  SubSeq(changes, 1, Len(changes) - 1))

\* C17 as amended: the change records are in line_start order, line_start
\* and line_end are 1-based line numbers of the old content, each
\* old_content is the lines line_start..line_end of the old content, and the
\* old content with those lines replaced by the new_content of each record
\* is the new content; the fields alone make up the two contents when the
\* contents have no line in common.
C17_ChangesPatch ==
    Analyzed =>
      LET old_lines == split(analysis.old)
          new_lines == split(analysis.new)
          changes   == analysis.changes
      IN /\ \A i \in 1..Len(changes) :
               /\ 1 <= changes[i].line_start
               /\ changes[i].line_start <= changes[i].line_end + 1
               /\ changes[i].line_end <= Len(old_lines)
         /\ \A i \in 1..(Len(changes) - 1) :
               changes[i].line_end < changes[i + 1].line_start
         /\ \A i \in 1..Len(changes) :
               SubSeq(old_lines, changes[i].line_start, changes[i].line_end)
                  = RemovedLines(changes[i])
         /\ join(Patch(old_lines, changes)) = analysis.new
         /\ (\A i \in 1..Len(old_lines), j \in 1..Len(new_lines) :
                old_lines[i] # new_lines[j])
            => /\ join(OldContents(changes)) = analysis.old
               /\ join(NewContents(changes)) = analysis.new

\* An analysis has yielded two change records with unchanged lines between.
C17_Witness ==
    /\ Analyzed
    /\ Len(analysis.changes) >= 2
    /\ analysis.changes[1].line_end + 1 < analysis.changes[2].line_start

\* The impact of one change has been assessed.
Assessed == analysis.op = "impact" /\ analysis.done

CombinedText == lower(analysis.old \o Str(" ") \o analysis.new)

\* C18: a change with a critical keyword in its old or new text is critical
\* whatever its type and its other keywords; else one with a high-impact
\* keyword is high; else a deleted change is high, an added one medium and
\* a modified one high, medium or low.
C18_ImpactFirstMatchWins ==
    Assessed =>
      LET critical == \E keyword \in critical_keywords :
                         Contains(CombinedText, keyword)
          high     == \E keyword \in high_impact_keywords :
                         Contains(CombinedText, keyword)
      IN /\ critical => analysis.impact = "critical"
         /\ (~critical /\ high) => analysis.impact = "high"
         /\ (~critical /\ ~high /\ analysis.change_type = "deleted")
               => analysis.impact = "high"
         /\ (~critical /\ ~high /\ analysis.change_type = "added")
               => analysis.impact = "medium"
         /\ (~critical /\ ~high /\ analysis.change_type = "modified")
               => analysis.impact \in {"high", "medium", "low"}
         /\ (/\ analysis.old = Str("The policy is optional.")
             /\ analysis.new = Str("The policy is mandatory and required."))
               => analysis.impact = "critical"

\* The change from "The policy is optional." to "The policy is mandatory and
\* required.", which has keywords of both lists, has been assessed.
C18_Witness ==
    /\ Assessed
    /\ analysis.change_type = "modified"
    /\ analysis.old = Str("The policy is optional.")
    /\ analysis.new = Str("The policy is mandatory and required.")
    /\ Contains(CombinedText, Str("policy"))
    /\ Contains(CombinedText, Str("mandatory"))

\* The second half of C19: the answer holds at most `limit` versions of the
\* document, the highest-numbered ones, from the highest number down.
MostRecentFirst ==
    /\ response.outcome = "ok"
    /\ Len(response.versions) <= response.limit
    /\ \A i \in 1..Len(response.versions) :
          response.versions[i].document_id = response.document_id
    /\ \A i \in 1..(Len(response.versions) - 1) :
          response.versions[i].version_number
             > response.versions[i + 1].version_number
    /\ { response.versions[i].version_number : i \in 1..Len(response.versions) }
          = { n \in response.numbers :
                Cardinality({ m \in response.numbers : m > n }) < response.limit }

\* C19: get_document_versions for a document without versions ends with the
\* not-found error; for a document with versions it returns at most `limit`
\* of them, the most recent first.
C19_VersionsOrNotFound ==
    response.op = "versions" =>
      IF response.numbers = {}
      THEN response.outcome \notin {"ok", "none"}
      ELSE MostRecentFirst

\* C20 as stated: no two version rows ever inserted for a document, lost or
\* not, were given the same version number.
C20_NeverReused ==
    \A a1, a2 \in assigned :
       (a1.document_id = a2.document_id /\ a1.version_number = a2.version_number)
         => a1 = a2

\* C20 as amended: a new version's number is above the number of every
\* version row the document has in storage at that moment, so a number is
\* given again only after its row and every higher-numbered row of the
\* document have been lost.
C20_AboveEveryStoredNumber ==
    [][\A a \in assigned' \ assigned :
          \A r \in VersionsOf(document_versions, a.document_id) :
             a.version_number > r.version_number]_vars

\* A version row below the document's highest was lost before the sequential
\* caller's call began, and the call has inserted a version whose number was
\* never used before.
C20_Witness ==
    \E a, b \in assigned :
       /\ a.document_id = b.document_id
       /\ b.id = seq.inserted
       /\ \A r \in versions_before : r.id # a.id /\ r.id # b.id
       /\ a.version_number < MaxVersion(versions_before, a.document_id)
       /\ \A c \in assigned : c.version_number = b.version_number => c = b

\* The change records stored for (from_id, to_id), in insertion order and
\* without their ids.
StoredChanges(from_id, to_id) ==
    LET OfPair(c) == c.from_version_id = from_id /\ c.to_version_id = to_id
        found == SelectSeq(document_changes, OfPair)
    IN [i \in 1..Len(found) |->
          [f \in DOMAIN found[i] \ {"id"} |-> found[i][f]]]

\* What a document's calls leave when they run alone, but for corp_docs:
\* after N successful calls the numbers 1..N, the last one current, and for
\* each two consecutive versions exactly the change records of their analysis.
ChainAsAlone(d) ==
    LET rows == VersionsOf(document_versions, d)
    IN /\ { r.version_number : r \in rows } = 1..completed[d]
       /\ Cardinality(rows) = completed[d]
       /\ \A r \in rows : r.is_current <=> r.version_number = completed[d]
       /\ \A r1, r2 \in rows :
             IF r2.version_number = r1.version_number + 1
             THEN StoredChanges(r1.id, r2.id) = ComputeChanges(r1, r2)
             ELSE StoredChanges(r1.id, r2.id) = <<>>

\* What a document's calls leave in corp_docs when they run alone: the id of
\* the current version and the highest version number.
PointerAsAlone(d) ==
    \A r \in CurrentOf(document_versions, d) :
       /\ corp_docs[d].current_version_id = r.id
       /\ corp_docs[d].version_count = r.version_number

\* C21: whenever a caller stands between two calls, its document's versions,
\* flags, change records and corp_docs row are what its calls leave when they
\* run alone, whatever the callers of other documents did in between.
C21_DocumentsIndependent ==
    \A p \in Procs :
       pc[p] = "idle" => ChainAsAlone(DocOf(p)) /\ PointerAsAlone(DocOf(p))

\* C22: a create call whose content differs from the content of the document's
\* current version succeeds and appends a version with the next number, also
\* when an older version of the document has that very content.
C22_ComparedWithCurrentOnly ==
    (/\ Quiet
     /\ seq.op = "create"
     /\ \A r \in CurrentOf(versions_before, seq.document_id) :
           r.content # seq.content)
    => /\ result[Sequential] = "ok"
       /\ \E r \in document_versions \ versions_before :
             /\ r.document_id = seq.document_id
             /\ r.version_number = MaxVersion(versions_before, seq.document_id) + 1
             /\ r.content = seq.content
             /\ r.is_current
       /\ versions_before \subseteq
            { [r EXCEPT !.is_current = b] : r \in document_versions, b \in BOOLEAN }

\* A create call with the content of an older, no longer current version,
\* different from the current version's, has ended.
C22_Witness ==
    /\ Quiet
    /\ seq.op = "create"
    /\ result[Sequential] = "ok"
    /\ \E old \in VersionsOf(versions_before, seq.document_id) :
          /\ ~old.is_current
          /\ old.content = seq.content
    /\ \E r \in CurrentOf(versions_before, seq.document_id) : r.content # seq.content

\* C23: every stored change record is between two stored versions of one
\* document whose numbers are consecutive, the from side the lower; this holds
\* after every operation, a compare_versions of a non-adjacent pair included.
C23_RecordsOfConsecutiveVersions ==
    \A i \in 1..Len(document_changes) :
       \E fv, tv \in document_versions :
          /\ fv.id = document_changes[i].from_version_id
          /\ tv.id = document_changes[i].to_version_id
          /\ fv.document_id = tv.document_id
          /\ tv.version_number = fv.version_number + 1

\* Change records are stored and compare_versions has answered for the
\* versions 1 and 3 of a document.
C23_Witness ==
    /\ response.op = "compare"
    /\ response.outcome = "ok"
    /\ {response.version1, response.version2} = {1, 3}
    /\ \E i, j \in 1..Len(document_changes) :
          document_changes[i].to_version_id # document_changes[j].to_version_id

\* C24: the id a successful create_document_version returns, which is the id
\* it wrote to corp_docs.current_version_id, is the id of the version row this
\* very call inserted, however the calls of other callers interleave.
C24_ReturnsOwnInsertedId ==
    \A p \in Procs :
       (pc[p] = "idle" /\ result[p] = "ok") =>
          frame[p].version_id = frame[p].inserted

\* C25: every change record of an analysis has a line range with
\* 1 <= line_start <= line_end, whatever its change type.
C25_ValidLineRange ==
    Analyzed =>
      \A i \in 1..Len(analysis.changes) :
         /\ 1 <= analysis.changes[i].line_start
         /\ analysis.changes[i].line_start <= analysis.changes[i].line_end

\* The opcodes of the analysis that are not 'equal', in order.
ChangedOpcodes ==
    LET NotEqual(op) == op[1] # "equal"
    IN SelectSeq(get_opcodes(split(analysis.old), split(analysis.new)), NotEqual)

\* C26: an analysis yields one change record for each opcode that is not
\* 'equal', in order, and none for an 'equal' one: 'added' with an empty
\* old_content for an insert, 'deleted' with an empty new_content for a
\* delete, 'modified' for a replace; no two records have the same line_start.
C26_OneRecordPerOpcode ==
    (analysis.op = "changes" /\ analysis.done) =>
      LET changes == analysis.changes
      IN /\ Len(changes) = Len(ChangedOpcodes)
         /\ \A i \in 1..Len(changes) :
               i <= Len(ChangedOpcodes) =>
                 LET tag == ChangedOpcodes[i][1]
                 IN /\ tag \in {"insert", "delete", "replace"}
                    /\ tag = "insert" =>
                         /\ changes[i].change_type = "added"
                         /\ changes[i].old_content = <<>>
                    /\ tag = "delete" =>
                         /\ changes[i].change_type = "deleted"
                         /\ changes[i].new_content = <<>>
                    /\ tag = "replace" => changes[i].change_type = "modified"
         /\ \A i, j \in 1..Len(changes) :
               changes[i].line_start = changes[j].line_start => i = j

\* An analysis has yielded an added and a deleted record around lines that
\* stayed.
C26_Witness ==
    /\ analysis.op = "changes" /\ analysis.done
    /\ Len(analysis.changes) = 2
    /\ {analysis.changes[1].change_type, analysis.changes[2].change_type}
         = {"added", "deleted"}
    /\ Len(get_opcodes(split(analysis.old), split(analysis.new))) = 3

\* The /versioning request being served, or served last, has read the
\* maximum version number (and, past the unchanged-content check, the hash).
MaxRead ==
    \/ versioning.pc \notin {"idle", "select_max"}
    \/ versioning.pc = "idle" /\ versioning.answer # NoAnswer

HashRead ==
    \/ versioning.pc \in {"demote", "documents_meta"}
    \/ versioning.pc = "insert" /\ versioning.call.current_max # 0
    \/ versioning.pc = "idle" /\ versioning.call.latest_version # <<>>

\* C27: with edge caching on, a /versioning creation works on the maximum
\* version number and on the latest content hash that the table held when the
\* request came in, so what the creation before it wrote is seen.
C27_CreationSeesLatest ==
    versioning.ENABLE_EDGE_CACHING =>
      LET call   == versioning.call
          latest == MaxPathVersion(versioning.found, call.document_path)
      IN /\ MaxRead => call.current_max = latest
         /\ HashRead =>
               call.latest_version
                 = HashesAt(versioning.found, call.document_path, latest)

\* A /versioning request has been answered whose content has the hash of the
\* path's latest version.
UnchangedAnswered ==
    LET call == versioning.call
    IN /\ versioning.pc = "idle"
       /\ versioning.answer # NoAnswer
       /\ HashesAt(versioning.found, call.document_path,
                   MaxPathVersion(versioning.found, call.document_path))
            = <<_calculate_hash(call.content)>>

\* C28: a /versioning create request with the content of the path's latest
\* version is answered 400 "Content unchanged. No new version created." and
\* leaves the versions table as it was.
C28_UnchangedContentIs400 ==
    UnchangedAnswered =>
      /\ versioning.answer.status_code = 400
      /\ versioning.answer.detail = "Content unchanged. No new version created."
      /\ versioning.document_versions = versioning.found

\* No version that is not current becomes current in this step.
NeverCurrentAgain ==
    \A r \in document_versions, r2 \in document_versions' :
       (r2.id = r.id /\ r2.is_current) => r.is_current

\* When a call completes in this step, the current versions of its document
\* are the one version with the highest number.
HighestIsCurrentOnCompletion ==
    \A p \in Procs :
       (pc[p] # "idle" /\ pc'[p] = "idle" /\ result'[p] = "ok") =>
          LET d == frame[p].document_id
          IN CurrentOf(document_versions', d)
               = RowsAt(document_versions', d, MaxVersion(document_versions', d))

\* C29: is_current of a stored version only goes from true to false, and
\* when an operation completes the current version of its document is the
\* one with the highest version number.
C29_CurrentOnlyDemoted ==
    [][NeverCurrentAgain /\ HighestIsCurrentOnCompletion]_vars

\* C30: when a create or rollback call run on its own has succeeded, the
\* document's corp_docs row points to the one version that is current and
\* counts the highest version number.
C30_CorpDocsConsistent ==
    (Quiet /\ result[Sequential] = "ok") =>
       LET d == seq.document_id
       IN /\ \E r \in document_versions :
                /\ CurrentOf(document_versions, d) = {r}
                /\ corp_docs[d].current_version_id = r.id
          /\ corp_docs[d].version_count = MaxVersion(document_versions, d)
====
